---- MODULE Spec2Model ----
(***************************************************************************)
(* statsdtee: a UDP tee for statsd packets.  Two variants of the program   *)
(* are modelled side by side:                                              *)
(*   "queued"  src/main.go          udpListener goroutine -> dataCh ->     *)
(*                                  processData                            *)
(*   "single"  src/unnamed/part_000 udpListener reads and routes in one    *)
(*                                  loop, with one reused buffer           *)
(* Bytes are one-character strings, byte slices are sequences of them.     *)
(***************************************************************************)
EXTENDS Integers, Sequences, FiniteSets, TLC

\* ------------------------------------------------------------- bounds
\* Number of configured destinations explored (0 .. MaxDests).
MaxDests == 2
\* Successful reads of the inbound socket in one run.
MaxReads == 3
\* Failed reads of the inbound socket in one run.
MaxReadErrs == 1
\* Failed writes to destination sockets in one run.
MaxWriteFails == 1
\* SIGTERM deliveries in one run.
MaxSignals == 1
\* Capacity of dataCh: make(chan []byte, 1000) at src/main.go:162, scaled down.
ChanCap == 2
\* Size of the read buffer: make([]byte, 512) at src/main.go:123 and
\* src/unnamed/part_000:93, scaled down.
BufSize == 18

\* Longest datagram that parseMessage alone is applied to.
MaxLen == 6

\* ------------------------------------------------------------- data
NUL == "NUL"
LF == "\n"
COLON == ":"

Min(a, b) == IF a < b THEN a ELSE b

\* A compiled pattern is a literal, optionally anchored at the start (^lit).
\* The three destinations a configuration is a prefix of.
AllDests ==
  << [Address |-> "h1:9001", Regex |-> [anch |-> TRUE, lit |-> <<"a">>],
      Replace |-> <<"p", "a">>],
     [Address |-> "h2:9002", Regex |-> [anch |-> FALSE, lit |-> <<"b">>],
      Replace |-> <<"q">>],
     [Address |-> "h3:9003", Regex |-> [anch |-> TRUE, lit |-> <<"z">>],
      Replace |-> <<"r">>] >>

Configs == { SubSeq(AllDests, 1, k) : k \in 0 .. Min(MaxDests, Len(AllDests)) }

\* Datagrams the network may deliver to the inbound socket: two lines, the
\* second with a second colon and running past the end of the read buffer,
\* and a line without a colon followed by an empty one.
Wire ==
  { <<"a", ":", "1", LF, "b", "a", ":", "7", ":", "7", "7", "7", "7", "7", "7",
      "7", "7", "7", "7", "7", "7", "7">>,
    <<"x", LF>> }

\* ------------------------------------------------------------- pure functions
\* bytes.Split(data, "\n") as the list of <<lo, hi>> ranges of the lines of
\* data[from .. n]; an empty line has hi = lo - 1.
RECURSIVE SplitLines(_, _, _, _)
SplitLines(b, n, lo, i) ==
  IF i > n THEN << <<lo, n>> >>
  ELSE IF b[i] = LF THEN << <<lo, i - 1>> >> \o SplitLines(b, n, i + 1, i + 1)
  ELSE SplitLines(b, n, lo, i + 1)

\* A greedy key ^(.+):(.*)$ would split at the last colon.
LastColon(b, lo, hi) ==
  IF \E i \in lo .. hi : b[i] = COLON
  THEN CHOOSE i \in lo .. hi : b[i] = COLON /\ \A j \in (i + 1) .. hi : b[j] # COLON
  ELSE 0

\* Position of the first colon of b[lo .. hi], or 0.
FirstColon(b, lo, hi) ==
  IF \E i \in lo .. hi : b[i] = COLON
  THEN CHOOSE i \in lo .. hi : b[i] = COLON /\ \A j \in lo .. (i - 1) : b[j] # COLON
  ELSE 0

\* ^([^:]*):(.*)$ would accept an empty key.
FindSubmatchStar(b, lo, hi) ==
  LET c == FirstColon(b, lo, hi)
  IN IF c = 0 THEN <<>>
     ELSE << [keyLo |-> lo, keyHi |-> c - 1, bodyLo |-> c + 1, bodyHi |-> hi] >>

\* packetRegexp ^([^:]+):(.*)$ on the line b[lo .. hi]: the submatch ranges,
\* or <<>> when the line does not match.
FindSubmatch(b, lo, hi) ==
  LET c == FirstColon(b, lo, hi)
  IN IF c = 0 \/ c = lo THEN <<>>
     ELSE << [keyLo |-> lo, keyHi |-> c - 1, bodyLo |-> c + 1, bodyHi |-> hi] >>

RECURSIVE ParseLines(_, _)
ParseLines(b, lines) ==
  IF lines = <<>> THEN <<>>
  ELSE LET l == Head(lines)
       IN IF l[2] < l[1] THEN ParseLines(b, Tail(lines))
          ELSE FindSubmatch(b, l[1], l[2]) \o ParseLines(b, Tail(lines))

\* parseMessage(data) for data = b[1 .. n].  Key and Body of a Packet are
\* sub-slices of data: they are kept as ranges into the buffer.
parseMessage(b, n) == ParseLines(b, SplitLines(b, n, 1, 1))

MatchAt(key, re, i) ==
  /\ re.anch => i = 1
  /\ i + Len(re.lit) - 1 <= Len(key)
  /\ SubSeq(key, i, i + Len(re.lit) - 1) = re.lit

\* Regex.ReplaceAll(key, repl): every non-overlapping match, left to right.
RECURSIVE ReplaceFrom(_, _, _, _)
ReplaceFrom(key, re, repl, i) ==
  IF i > Len(key) THEN <<>>
  ELSE IF MatchAt(key, re, i)
       THEN repl \o ReplaceFrom(key, re, repl, i + Len(re.lit))
       ELSE <<key[i]>> \o ReplaceFrom(key, re, repl, i + 1)

ReplaceAll(re, key, repl) == ReplaceFrom(key, re, repl, 1)

\* Sprintf("%s:%s\n", ...): the line is sent with a newline after it.
MakePacketLn(b, p, d) ==
  ReplaceAll(d.Regex, SubSeq(b, p.keyLo, p.keyHi), d.Replace)
    \o <<COLON>> \o SubSeq(b, p.bodyLo, p.bodyHi) \o <<LF>>

\* p.Key = Regex.ReplaceAll(p.Key, Replace): the key rewritten for one
\* destination is the key the next destination rewrites.
RECURSIVE ChainKey(_, _)
ChainKey(key, ds) ==
  IF ds = <<>> THEN key
  ELSE ReplaceAll(ds[Len(ds)].Regex, ChainKey(key, SubSeq(ds, 1, Len(ds) - 1)),
                  ds[Len(ds)].Replace)

MakePacketChained(b, p, d) ==
  ChainKey(SubSeq(b, p.keyLo, p.keyHi),
           SubSeq(AllDests, 1, CHOOSE i \in 1 .. Len(AllDests) : AllDests[i] = d))
    \o <<COLON>> \o SubSeq(b, p.bodyLo, p.bodyHi)

\* fmt.Sprintf("%s:%s", key, p.Body) for packet p of buffer b, destination d.
MakePacket(b, p, d) ==
  ReplaceAll(d.Regex, SubSeq(b, p.keyLo, p.keyHi), d.Replace)
    \o <<COLON>> \o SubSeq(b, p.bodyLo, p.bodyHi)

\* What one ReadFromUDP of datagram w leaves in buffer b: the first
\* min(len(w), len(b)) bytes overwritten, the rest of b untouched.
ReadInto(b, w) ==
  [i \in 1 .. Len(b) |-> IF i <= Len(w) THEN w[i] ELSE b[i]]

\* A datagram longer than the buffer refused: nothing is read.
ReadLenRefuse(w) == IF Len(w) > BufSize THEN 0 ELSE Len(w)

ReadLen(w) == Min(Len(w), BufSize)

NewBuf == [i \in 1 .. BufSize |-> NUL]

\* ------------------------------------------------------------- state
VARIABLES
  variant,       \* "queued" (src/main.go) or "single" (src/unnamed/part_000)
  network,       \* the datagrams the network may deliver to the inbound socket
  destinations,  \* main's destinations, fixed by the command line
  exit,          \* "none" while the process lives, else "fatal" or "signal"
  mainpc,        \* main: "check", "notify", "start", "run"
  signalchan,    \* number of signals buffered in signalchan (capacity 1)
  sigs,          \* SIGTERMs delivered so far
  lpc,           \* reader: "idle", "bind", "read", "push", "busy"
  bound,         \* the inbound socket is bound
  message,       \* the reader's slice message[:n]: [buf, n]; as history, seq
                 \* (its number among the reads), errs (read errors before
                 \* it), orig (the bytes read) and wire (the datagram received)
  nReads,        \* successful ReadFromUDP calls
  reads,         \* as history: the datagrams they received, in order
  nReadErrs,     \* failed ReadFromUDP calls, each logged
  heap,          \* the allocated read buffers, by buffer id
  dataCh,        \* the channel's buffered slices
  rpc,           \* router: "idle", "dial0", "recv", "write", "close", "dial"
  destConns,     \* socket id of each destination's connection
  cur,           \* the slice being routed (data)
  packets,       \* parseMessage's result for cur
  rk,            \* index of the packet being routed
  ri,            \* index of the destination being served
  conn,          \* the local conn of the loop body
  socks,         \* every socket dialed: [addr, open]
  nFails,        \* failed writes so far
  trace          \* history of the router's socket calls

vars ==
  <<variant, network, destinations, exit, mainpc, signalchan, sigs, lpc, bound, message,
    nReads, reads, nReadErrs, heap, dataCh, rpc, destConns, cur, packets, rk, ri, conn,
    socks, nFails, trace>>

cfgVars == <<variant, network, destinations>>
mainVars == <<mainpc, signalchan, sigs>>
readVars == <<bound, message, nReads, reads, nReadErrs>>
loopVars == <<cur, packets, rk, ri, conn>>
sockVars == <<destConns, socks, nFails, trace>>

NoSlice ==
  [buf |-> 0, n |-> 0, seq |-> 0, errs |-> 0, orig |-> <<>>, wire |-> <<>>]

\* One entry of the history of socket calls.
Event(op, dest, sock, addr, ok, payload) ==
  [op |-> op, dest |-> dest, sock |-> sock, addr |-> addr, ok |-> ok,
   payload |-> payload, dg |-> cur.seq, rec |-> IF op = "write" THEN rk ELSE 0]

Init ==
  /\ variant \in {"queued", "single"}
  /\ network = Wire
  /\ destinations \in Configs
  /\ exit = "none"
  /\ mainpc = "check"
  /\ signalchan = 0
  /\ sigs = 0
  /\ lpc = "idle"
  /\ bound = FALSE
  /\ message = NoSlice
  /\ nReads = 0
  /\ reads = <<>>
  /\ nReadErrs = 0
  /\ heap = <<>>
  /\ dataCh = <<>>
  /\ rpc = "idle"
  /\ destConns = <<>>
  /\ cur = NoSlice
  /\ packets = <<>>
  /\ rk = 0
  /\ ri = 0
  /\ conn = 0
  /\ socks = <<>>
  /\ nFails = 0
  /\ trace = <<>>

\* log.Fatalf: the message is logged and the process exits with status 1.
Fatalf == exit' = "fatal"

\* ------------------------------------------------------------- main
\* MainCheck without the test for an empty list of destinations.
MainCheckNoTest ==
  /\ exit = "none" /\ mainpc = "check"
  /\ mainpc' = "notify"
  /\ UNCHANGED <<cfgVars, exit, signalchan, sigs, lpc, readVars, heap, dataCh,
                 rpc, loopVars, sockVars>>

\* main: the destinations are built from the flags; none is fatal.
MainCheck ==
  /\ exit = "none" /\ mainpc = "check"
  /\ IF Len(destinations) = 0
     THEN Fatalf /\ UNCHANGED mainpc
     ELSE mainpc' = "notify" /\ UNCHANGED exit
  /\ UNCHANGED <<cfgVars, signalchan, sigs, lpc, readVars, heap, dataCh, rpc,
                 loopVars, sockVars>>

\* main: signalchan := make(chan os.Signal, 1); signal.Notify(signalchan, SIGTERM).
MainNotify ==
  /\ exit = "none" /\ mainpc = "notify"
  /\ mainpc' = "start"
  /\ UNCHANGED <<cfgVars, exit, signalchan, sigs, lpc, readVars, heap, dataCh,
                 rpc, loopVars, sockVars>>

\* main of src/main.go: dataCh is made, udpListener is started as a goroutine
\* and main goes on in processData.
MainStart ==
  /\ exit = "none" /\ mainpc = "start" /\ variant = "queued"
  /\ mainpc' = "run"
  /\ lpc' = "bind"
  /\ rpc' = "dial0" /\ ri' = 1
  /\ UNCHANGED <<cfgVars, exit, signalchan, sigs, readVars, heap, dataCh,
                 cur, packets, rk, conn, sockVars>>

\* main of src/unnamed/part_000: main goes on in udpListener.
MainStartSingle ==
  /\ exit = "none" /\ mainpc = "start" /\ variant = "single"
  /\ mainpc' = "run"
  /\ lpc' = "bind"
  /\ UNCHANGED <<cfgVars, exit, signalchan, sigs, readVars, heap, dataCh, rpc,
                 loopVars, sockVars>>

\* A SIGTERM reaches the process.  Before signal.Notify the default action
\* ends the process.  After it the Go runtime no longer ends the process: it
\* sends the signal on signalchan without blocking (dropped when the buffer
\* of 1 is full), and nothing in the program receives from signalchan.
Sigterm ==
  /\ exit = "none" /\ sigs < MaxSignals
  /\ sigs' = sigs + 1
  /\ IF mainpc \in {"check", "notify"}
     THEN exit' = "signal" /\ UNCHANGED signalchan
     ELSE signalchan' = Min(signalchan + 1, 1) /\ UNCHANGED exit
  /\ UNCHANGED <<cfgVars, mainpc, lpc, readVars, heap, dataCh, rpc, loopVars,
                 sockVars>>

\* ------------------------------------------------------------- reader, queued
\* udpListener of src/main.go: net.ListenUDP; a failure is fatal.  (A failing
\* SetReadBuffer is only logged.)
ListenUDP ==
  /\ exit = "none" /\ variant = "queued" /\ lpc = "bind"
  /\ \/ bound' = TRUE /\ lpc' = "read" /\ UNCHANGED exit
     \/ Fatalf /\ UNCHANGED <<bound, lpc>>
  /\ UNCHANGED <<cfgVars, mainVars, message, nReads, reads, nReadErrs, heap, dataCh,
                 rpc, loopVars, sockVars>>

\* ReadBuf with the make hoisted out of the loop: one buffer for every read.
ReadBufShared == Min(Len(heap) + 1, 1)

\* The buffer one iteration of the queued reader reads into:
\* message := make([]byte, 512) inside the loop, a new buffer each time.
ReadBuf == Len(heap) + 1

\* The heap after datagram w was read into buffer id (allocated when new).
HeapAfterRead(id, w) ==
  IF id > Len(heap) THEN Append(heap, ReadInto(NewBuf, w))
  ELSE [heap EXCEPT ![id] = ReadInto(@, w)]

\* The slice message[:n] after datagram w was read into buffer id.
SliceOf(id, w) ==
  [buf |-> id, n |-> ReadLen(w), seq |-> nReads + 1, errs |-> nReadErrs,
   orig |-> SubSeq(w, 1, ReadLen(w)), wire |-> w]

\* ReadFromUDP returns a datagram: it is logged and the reader goes to send
\* message[:n] on dataCh.
ReadOk ==
  /\ exit = "none" /\ variant = "queued" /\ lpc = "read"
  /\ nReads < MaxReads
  /\ \E w \in network :
       /\ heap' = HeapAfterRead(ReadBuf, w)
       /\ message' = SliceOf(ReadBuf, w)
       /\ reads' = Append(reads, w)
  /\ nReads' = nReads + 1
  /\ lpc' = "push"
  /\ UNCHANGED <<cfgVars, exit, mainVars, bound, nReadErrs, dataCh, rpc,
                 loopVars, sockVars>>

\* ReadErr without the continue: the error is logged and message[:n], with
\* n = 0, is sent on dataCh like a datagram.
ReadErrFallsThrough ==
  /\ exit = "none" /\ variant = "queued" /\ lpc = "read"
  /\ nReadErrs < MaxReadErrs
  /\ nReadErrs' = nReadErrs + 1
  /\ heap' = Append(heap, NewBuf)
  /\ message' = [NoSlice EXCEPT !.buf = ReadBuf, !.seq = nReads]
  /\ lpc' = "push"
  /\ UNCHANGED <<cfgVars, exit, mainVars, bound, nReads, reads, dataCh, rpc, loopVars,
                 sockVars>>

\* ReadFromUDP returns an error: it is logged and the loop continues.  The
\* buffer allocated for the iteration is garbage.
ReadErr ==
  /\ exit = "none" /\ variant = "queued" /\ lpc = "read"
  /\ nReadErrs < MaxReadErrs
  /\ nReadErrs' = nReadErrs + 1
  /\ UNCHANGED <<cfgVars, exit, mainVars, lpc, bound, message, nReads, reads, heap,
                 dataCh, rpc, loopVars, sockVars>>

\* Push as a non-blocking send: with the buffer full the slice is dropped.
PushDropWhenFull ==
  /\ exit = "none" /\ variant = "queued" /\ lpc = "push"
  /\ dataCh' = IF Len(dataCh) < ChanCap THEN Append(dataCh, message) ELSE dataCh
  /\ lpc' = "read"
  /\ UNCHANGED <<cfgVars, exit, mainVars, readVars, heap, rpc, loopVars,
                 sockVars>>

\* dataCh <- message[:n]: blocks while the channel's buffer is full.
Push ==
  /\ exit = "none" /\ variant = "queued" /\ lpc = "push"
  /\ Len(dataCh) < ChanCap
  /\ dataCh' = Append(dataCh, message)
  /\ lpc' = "read"
  /\ UNCHANGED <<cfgVars, exit, mainVars, readVars, heap, rpc, loopVars,
                 sockVars>>

\* ------------------------------------------------------------- router
\* net.DialTimeout succeeded: the new socket's id and the sockets after it.
NewSock == Len(socks) + 1

\* Every dial goes to the address of the first destination.
DialedFirst(i) ==
  Append(socks, [addr |-> destinations[1].Address, open |-> TRUE])

Dialed(i) == Append(socks, [addr |-> destinations[i].Address, open |-> TRUE])

\* The first loop of processData: one dial per destination, in order.
DialOk ==
  /\ socks' = Dialed(ri)
  /\ destConns' = Append(destConns, NewSock)
  /\ trace' = Append(trace, Event("dial", ri, NewSock, destinations[ri].Address,
                                  TRUE, <<>>))
  /\ UNCHANGED <<exit, nFails>>

\* DialFailed with the error only logged: the dial is made again.
DialFailedIgnored ==
  /\ trace' = Append(trace, Event("dial", ri, 0, destinations[ri].Address,
                                  FALSE, <<>>))
  /\ UNCHANGED <<exit, destConns, socks, nFails, rpc, ri, rk, lpc, heap, message>>

\* A failed dial, at startup or on reconnect: log.Fatalf.
DialFailed ==
  /\ trace' = Append(trace, Event("dial", ri, 0, destinations[ri].Address,
                                  FALSE, <<>>))
  /\ Fatalf
  /\ UNCHANGED <<destConns, socks, nFails, rpc, ri, rk, lpc, heap, message>>

DialAll ==
  /\ exit = "none" /\ variant = "queued" /\ rpc = "dial0"
  /\ \/ /\ DialOk
        /\ IF ri < Len(destinations)
           THEN ri' = ri + 1 /\ UNCHANGED rpc
           ELSE ri' = 0 /\ rpc' = "recv"
        /\ UNCHANGED <<rk, lpc, heap, message>>
     \/ DialFailed
  /\ UNCHANGED <<cfgVars, mainVars, bound, nReads, reads, nReadErrs, dataCh, cur,
                 packets, conn>>

\* Recv in a processData that returns after its first datagram.
RecvOnce ==
  /\ exit = "none" /\ variant = "queued" /\ rpc = "recv"
  /\ cur.seq = 0
  /\ dataCh # <<>>
  /\ dataCh' = Tail(dataCh)
  /\ cur' = Head(dataCh)
  /\ LET ps == parseMessage(heap[cur'.buf], cur'.n)
     IN /\ packets' = ps
        /\ IF ps = <<>>
           THEN UNCHANGED <<rpc, rk, ri>>
           ELSE rpc' = "write" /\ rk' = 1 /\ ri' = 1
  /\ UNCHANGED <<cfgVars, exit, mainVars, lpc, readVars, heap, conn, sockVars>>

\* Recv from a stack instead of a queue: the slice sent last is received.
RecvLast ==
  /\ exit = "none" /\ variant = "queued" /\ rpc = "recv"
  /\ dataCh # <<>>
  /\ dataCh' = SubSeq(dataCh, 1, Len(dataCh) - 1)
  /\ cur' = dataCh[Len(dataCh)]
  /\ LET ps == parseMessage(heap[cur'.buf], cur'.n)
     IN /\ packets' = ps
        /\ IF ps = <<>>
           THEN UNCHANGED <<rpc, rk, ri>>
           ELSE rpc' = "write" /\ rk' = 1 /\ ri' = 1
  /\ UNCHANGED <<cfgVars, exit, mainVars, lpc, readVars, heap, conn, sockVars>>

\* for data := range dataCh { for _, p := range parseMessage(data) { ...
\* a slice is received and parsed; with no packet the next one is awaited.
Recv ==
  /\ exit = "none" /\ variant = "queued" /\ rpc = "recv"
  /\ dataCh # <<>>
  /\ dataCh' = Tail(dataCh)
  /\ cur' = Head(dataCh)
  /\ LET ps == parseMessage(heap[Head(dataCh).buf], Head(dataCh).n)
     IN /\ packets' = ps
        /\ IF ps = <<>>
           THEN UNCHANGED <<rpc, rk, ri>>
           ELSE rpc' = "write" /\ rk' = 1 /\ ri' = 1
  /\ UNCHANGED <<cfgVars, exit, mainVars, lpc, readVars, heap, conn, sockVars>>

\* The datagram is routed: the queued router awaits the next slice, the
\* single-threaded loop goes back to ReadFromUDP.
NextDatagram ==
  /\ rk' = 0 /\ ri' = 0
  /\ IF variant = "queued"
     THEN rpc' = "recv" /\ UNCHANGED lpc
     ELSE rpc' = "idle" /\ lpc' = "read"

\* Advance with the two loops exchanged: all packets for one destination,
\* then the next destination.
AdvancePacketsFirst ==
  IF rk < Len(packets)
  THEN rk' = rk + 1 /\ rpc' = "write" /\ UNCHANGED <<ri, lpc>>
  ELSE IF ri < Len(destinations)
       THEN ri' = ri + 1 /\ rk' = 1 /\ rpc' = "write" /\ UNCHANGED lpc
       ELSE NextDatagram

\* The end of the body of the destination loop: the next destination of the
\* packet, else the first destination of the next packet, else the next
\* datagram.
Advance ==
  IF ri < Len(destinations)
  THEN ri' = ri + 1 /\ rpc' = "write" /\ UNCHANGED <<rk, lpc>>
  ELSE IF rk < Len(packets)
       THEN rk' = rk + 1 /\ ri' = 1 /\ rpc' = "write" /\ UNCHANGED lpc
       ELSE NextDatagram

\* key := Regex.ReplaceAll(p.Key, Replace); packet := Sprintf(...);
\* conn := destConns[i]; conn.Write(packet) succeeds.
WriteOk ==
  /\ conn' = destConns[ri]
  /\ trace' = Append(trace,
        Event("write", ri, destConns[ri], socks[destConns[ri]].addr, TRUE,
              MakePacket(heap[cur.buf], packets[rk], destinations[ri])))
  /\ Advance
  /\ UNCHANGED <<exit, destConns, socks, nFails>>

\* conn.Write fails: the error is logged, the socket is closed next.
WriteFailed ==
  /\ nFails < MaxWriteFails
  /\ conn' = destConns[ri]
  /\ nFails' = nFails + 1
  /\ trace' = Append(trace,
        Event("write", ri, destConns[ri], socks[destConns[ri]].addr, FALSE,
              MakePacket(heap[cur.buf], packets[rk], destinations[ri])))
  /\ rpc' = "close"
  /\ UNCHANGED <<exit, destConns, socks, rk, ri, lpc>>

Write ==
  /\ exit = "none" /\ rpc = "write"
  /\ (WriteOk \/ WriteFailed)
  /\ UNCHANGED <<cfgVars, mainVars, readVars, heap, dataCh, cur, packets>>

\* Close without the conn.Close(): the socket is left open.
CloseLeaked ==
  /\ exit = "none" /\ rpc = "close"
  /\ rpc' = "dial"
  /\ UNCHANGED <<cfgVars, exit, mainVars, lpc, readVars, heap, dataCh,
                 loopVars, sockVars>>

\* conn.Close() after a failed write.
Close ==
  /\ exit = "none" /\ rpc = "close"
  /\ socks' = [socks EXCEPT ![conn].open = FALSE]
  /\ trace' = Append(trace, Event("close", ri, conn, socks[conn].addr, TRUE, <<>>))
  /\ rpc' = "dial"
  /\ UNCHANGED <<cfgVars, exit, mainVars, lpc, readVars, heap, dataCh,
                 loopVars, destConns, nFails>>

\* Reconnected with a break out of the destination loop after the reconnect.
ReconnectedBreak ==
  /\ socks' = Dialed(ri)
  /\ destConns' = [destConns EXCEPT ![ri] = NewSock]
  /\ trace' = Append(trace, Event("dial", ri, NewSock, destinations[ri].Address,
                                  TRUE, <<>>))
  /\ IF rk < Len(packets)
     THEN rk' = rk + 1 /\ ri' = 1 /\ rpc' = "write" /\ UNCHANGED lpc
     ELSE NextDatagram
  /\ UNCHANGED <<exit, nFails, heap, message>>

\* Reconnected without destConns[i] = conn: the new socket stays in the
\* inner conn and the closed one stays in destConns.
ReconnectedNotStored ==
  /\ socks' = Dialed(ri)
  /\ trace' = Append(trace, Event("dial", ri, NewSock, destinations[ri].Address,
                                  TRUE, <<>>))
  /\ Advance
  /\ UNCHANGED <<exit, nFails, heap, message, destConns>>

\* The reconnect succeeded: destConns[i] = conn (the new socket).
Reconnected ==
  /\ socks' = Dialed(ri)
  /\ destConns' = [destConns EXCEPT ![ri] = NewSock]
  /\ trace' = Append(trace, Event("dial", ri, NewSock, destinations[ri].Address,
                                  TRUE, <<>>))
  /\ Advance
  /\ UNCHANGED <<exit, nFails, heap, message>>

\* reconnect: net.DialTimeout to the destination's address; a failure is fatal.
Reconnect ==
  /\ exit = "none" /\ rpc = "dial"
  /\ (Reconnected \/ DialFailed)
  /\ UNCHANGED <<cfgVars, mainVars, bound, nReads, reads, nReadErrs, dataCh, cur,
                 packets, conn>>

\* ------------------------------------------------------------- single-threaded
\* udpListener of src/unnamed/part_000: net.ListenUDP; a failure is fatal.
SListenUDP ==
  /\ exit = "none" /\ variant = "single" /\ lpc = "bind"
  /\ \/ /\ bound' = TRUE /\ lpc' = "busy"
        /\ rpc' = "dial0" /\ ri' = 1
        /\ UNCHANGED exit
     \/ Fatalf /\ UNCHANGED <<bound, lpc, rpc, ri>>
  /\ UNCHANGED <<cfgVars, mainVars, message, nReads, reads, nReadErrs, heap, dataCh,
                 cur, packets, rk, conn, sockVars>>

\* One dial per destination, in order; after the last one the single read
\* buffer is allocated (message := make([]byte, 512), outside the loop).
SDialAll ==
  /\ exit = "none" /\ variant = "single" /\ rpc = "dial0"
  /\ \/ /\ DialOk
        /\ IF ri < Len(destinations)
           THEN ri' = ri + 1 /\ UNCHANGED <<rpc, lpc, heap, message>>
           ELSE /\ ri' = 0 /\ rpc' = "idle" /\ lpc' = "read"
                /\ heap' = <<NewBuf>>
                /\ message' = [NoSlice EXCEPT !.buf = 1]
        /\ UNCHANGED rk
     \/ DialFailed
  /\ UNCHANGED <<cfgVars, mainVars, bound, nReads, reads, nReadErrs, dataCh, cur,
                 packets, conn>>

\* SReadOk with parseMessage(message) for parseMessage(message[:n]): what
\* earlier datagrams left in the buffer behind the n bytes is parsed too.
SReadOkWholeBuffer ==
  /\ exit = "none" /\ variant = "single" /\ lpc = "read"
  /\ nReads < MaxReads
  /\ \E w \in network :
       LET h == HeapAfterRead(message.buf, w)
           m == SliceOf(message.buf, w)
           ps == parseMessage(h[m.buf], Len(h[m.buf]))
       IN /\ heap' = h
          /\ message' = m
          /\ reads' = Append(reads, w)
          /\ cur' = m
          /\ packets' = ps
          /\ IF ps = <<>>
             THEN UNCHANGED <<lpc, rpc, rk, ri>>
             ELSE lpc' = "busy" /\ rpc' = "write" /\ rk' = 1 /\ ri' = 1
  /\ nReads' = nReads + 1
  /\ UNCHANGED <<cfgVars, exit, mainVars, bound, nReadErrs, dataCh, conn,
                 sockVars>>

\* ReadFromUDP into the one buffer returns a datagram: message[:n] is parsed
\* and routed at once; with no packet the loop reads again.
SReadOk ==
  /\ exit = "none" /\ variant = "single" /\ lpc = "read"
  /\ nReads < MaxReads
  /\ \E w \in network :
       LET h == HeapAfterRead(message.buf, w)
           m == SliceOf(message.buf, w)
           ps == parseMessage(h[m.buf], m.n)
       IN /\ heap' = h
          /\ message' = m
          /\ reads' = Append(reads, w)
          /\ cur' = m
          /\ packets' = ps
          /\ IF ps = <<>>
             THEN UNCHANGED <<lpc, rpc, rk, ri>>
             ELSE lpc' = "busy" /\ rpc' = "write" /\ rk' = 1 /\ ri' = 1
  /\ nReads' = nReads + 1
  /\ UNCHANGED <<cfgVars, exit, mainVars, bound, nReadErrs, dataCh, conn,
                 sockVars>>

\* ReadFromUDP returns an error: it is logged and the loop continues.
SReadErr ==
  /\ exit = "none" /\ variant = "single" /\ lpc = "read"
  /\ nReadErrs < MaxReadErrs
  /\ nReadErrs' = nReadErrs + 1
  /\ UNCHANGED <<cfgVars, exit, mainVars, lpc, bound, message, nReads, reads, heap,
                 dataCh, rpc, loopVars, sockVars>>

\* ------------------------------------------------------------- specification
Next ==
  \/ MainCheck
  \/ MainNotify
  \/ MainStart
  \/ MainStartSingle
  \/ Sigterm
  \/ ListenUDP
  \/ ReadOk
  \/ ReadErr
  \/ Push
  \/ DialAll
  \/ Recv
  \/ Write
  \/ Close
  \/ Reconnect
  \/ SListenUDP
  \/ SDialAll
  \/ SReadOk
  \/ SReadErr

Spec == Init /\ [][Next]_vars

\* ------------------------------------------------------------- scheduling
\* src/main.go alone, with the Go scheduler running every goroutine that can
\* take a step (runtime.GOMAXPROCS(2), two goroutines) and every dial, write
\* and close returning.  Datagrams come when they come: no fairness for
\* ReadOk.  Signals and failed reads, which touch neither dataCh nor the
\* router, are left out.
InitQueued == Init /\ variant = "queued"

NextQueued ==
  \/ MainCheck
  \/ MainNotify
  \/ MainStart
  \/ ListenUDP
  \/ ReadOk
  \/ Push
  \/ DialAll
  \/ Recv
  \/ Write
  \/ Close
  \/ Reconnect

Fairness ==
  /\ WF_vars(Push)
  /\ WF_vars(DialAll)
  /\ WF_vars(Recv)
  /\ WF_vars(Write)
  /\ WF_vars(Close)
  /\ WF_vars(Reconnect)

SpecFair == InitQueued /\ [][NextQueued]_vars /\ Fairness

\* ------------------------------------------------------------- command line
\* strings.Split(s, sep) for a one-byte separator.
RECURSIVE Split(_, _)
Split(s, sep) ==
  IF \E i \in 1 .. Len(s) : s[i] = sep
  THEN LET i == CHOOSE i \in 1 .. Len(s) :
                  s[i] = sep /\ \A j \in 1 .. (i - 1) : s[j] # sep
       IN <<SubSeq(s, 1, i - 1)>> \o Split(SubSeq(s, i + 1, Len(s)), sep)
  ELSE <<s>>

\* The literal of a pattern: a backslash makes the next byte literal.
RECURSIVE Unescape(_)
Unescape(e) ==
  IF e = <<>> THEN <<>>
  ELSE IF e[1] = "\\" /\ Len(e) >= 2
       THEN <<e[2]>> \o Unescape(SubSeq(e, 3, Len(e)))
       ELSE <<e[1]>> \o Unescape(Tail(e))

\* The expression taken byte for byte, as regexp.QuoteMeta would make it.
MustCompileQuoted(e) == [anch |-> FALSE, lit |-> e]

\* regexp.MustCompile(e) for an expression ^literal or literal.
MustCompile(e) ==
  IF e # <<>> /\ e[1] = "^"
  THEN [anch |-> TRUE, lit |-> Unescape(Tail(e))]
  ELSE [anch |-> FALSE, lit |-> Unescape(e)]

\* main: one Destination per --destination-address host:port:regex:replacement.
DestinationOf(arg) ==
  LET parts == Split(arg, COLON)
  IN [Address |-> parts[1] \o <<COLON>> \o parts[2],
      Regex |-> MustCompile(parts[3]),
      Replace |-> parts[4]]

\* --destination-address 127.0.0.1:9001:^stats\.:prod.stats.
\* --destination-address 127.0.0.1:9002:^stats\.:dev.stats.
E2EArgs ==
  << <<"1", "2", "7", ".", "0", ".", "0", ".", "1", COLON, "9", "0", "0",
       "1", COLON, "^", "s", "t", "a", "t", "s", "\\", ".", COLON, "p", "r",
       "o", "d", ".", "s", "t", "a", "t", "s", ".">>,
     <<"1", "2", "7", ".", "0", ".", "0", ".", "1", COLON, "9", "0", "0",
       "2", COLON, "^", "s", "t", "a", "t", "s", "\\", ".", COLON, "d", "e",
       "v", ".", "s", "t", "a", "t", "s", ".">> >>

\* The datagram stats.counter:5|c with a newline after it.
E2EDatagram ==
  <<"s", "t", "a", "t", "s", ".", "c", "o", "u", "n", "t", "e", "r", COLON,
  "5", "|", "c", LF>>

InitE2E ==
  /\ variant \in {"queued", "single"}
  /\ network = {E2EDatagram}
  /\ destinations = [i \in 1 .. Len(E2EArgs) |-> DestinationOf(E2EArgs[i])]
  /\ exit = "none"
  /\ mainpc = "check"
  /\ signalchan = 0
  /\ sigs = 0
  /\ lpc = "idle"
  /\ bound = FALSE
  /\ message = NoSlice
  /\ nReads = 0
  /\ reads = <<>>
  /\ nReadErrs = 0
  /\ heap = <<>>
  /\ dataCh = <<>>
  /\ rpc = "idle"
  /\ destConns = <<>>
  /\ cur = NoSlice
  /\ packets = <<>>
  /\ rk = 0
  /\ ri = 0
  /\ conn = 0
  /\ socks = <<>>
  /\ nFails = 0
  /\ trace = <<>>

SpecE2E == InitE2E /\ [][Next]_vars

\* ------------------------------------------------------------- history
NDest == Len(destinations)
Routing == rpc \in {"write", "close", "dial"}
IsWrite(e) == e.op = "write"
IsFailedWrite(e) == e.op = "write" /\ ~e.ok
IsDial(e) == e.op = "dial"
WriteIdx == {k \in 1 .. Len(trace) : IsWrite(trace[k])}
Attempted(dg, rec, j) ==
  \E k \in WriteIdx : trace[k].dg = dg /\ trace[k].rec = rec /\ trace[k].dest = j
\* The router is no longer at packet rec of datagram dg.
RecordLeft(dg, rec) == ~(cur.seq = dg /\ rk = rec)
\* The bytes of slice s as they are in its buffer now.
Bytes(s) == SubSeq(heap[s.buf], 1, s.n)

\* ------------------------------------------------------------- claims
\* C1: the write attempts are made packet by packet and, for one packet, to
\* the destinations in index order 1, 2, .. n, one attempt each: a write that
\* follows the write to destination i < n is the write of the same packet to
\* destination i + 1, and a write that follows the write to destination n is
\* the write to destination 1 of the next packet (of the same datagram, or
\* the first packet of a later one).
C1_FanOutOrder ==
  LET W == SelectSeq(trace, IsWrite)
  IN \A k \in 1 .. Len(W) :
       IF k = 1
       THEN W[k].rec = 1 /\ W[k].dest = 1
       ELSE LET a == W[k - 1]
                b == W[k]
            IN IF a.dest < NDest
               THEN b.dg = a.dg /\ b.rec = a.rec /\ b.dest = a.dest + 1
               ELSE /\ b.dest = 1
                    /\ \/ b.dg = a.dg /\ b.rec = a.rec + 1
                       \/ b.dg > a.dg /\ b.rec = 1

\* Two packets of a second datagram were written to two destinations.
C1_Witness ==
  /\ NDest = 2
  /\ \E k \in WriteIdx :
       trace[k].dg = 2 /\ trace[k].rec = 2 /\ trace[k].dest = 2

\* C2 as claimed: whenever the write of a packet to destination i failed,
\* whatever the outcome of the reconnect, then once the router is done with
\* the packet (it left it, or the process ended) a write of that packet was
\* attempted on every destination j > i.
C2_Original ==
  \A k \in WriteIdx :
    (IsFailedWrite(trace[k])
       /\ (RecordLeft(trace[k].dg, trace[k].rec) \/ exit # "none"))
    => \A j \in (trace[k].dest + 1) .. NDest :
         Attempted(trace[k].dg, trace[k].rec, j)

\* C2 amended: whenever the write of a packet to destination i failed and the
\* process was not ended by a failed reconnect while on that packet, then
\* once the router has left the packet a write of it was attempted on every
\* destination j > i.
C2_FailureIsolated ==
  \A k \in WriteIdx :
    (IsFailedWrite(trace[k]) /\ RecordLeft(trace[k].dg, trace[k].rec))
    => \A j \in (trace[k].dest + 1) .. NDest :
         Attempted(trace[k].dg, trace[k].rec, j)

\* The write to destination 1 of 2 failed and the router has left the packet.
C2_Witness ==
  /\ NDest = 2
  /\ \E k \in WriteIdx :
       /\ IsFailedWrite(trace[k]) /\ trace[k].dest = 1
       /\ RecordLeft(trace[k].dg, trace[k].rec)

\* C3 as claimed: once a SIGTERM was delivered to the process, running with
\* its loops started, the process has ended.
C3_SigtermExits == (sigs > 0 /\ mainpc = "run") => exit # "none"

\* C4: a failed write is followed by the close of the socket written to and
\* then by one dial of the same destination's address, nothing else between
\* them; a failed dial ends the process at once, a successful one is followed
\* by the write to the next destination or packet; and no dial is made after
\* startup that does not follow a failed write and its close.
C4_ReconnectOnce ==
  /\ \A k \in 1 .. Len(trace) :
       IsFailedWrite(trace[k]) =>
         /\ IF k + 1 <= Len(trace)
            THEN /\ trace[k + 1].op = "close"
                 /\ trace[k + 1].sock = trace[k].sock
                 /\ ~socks[trace[k].sock].open
            ELSE exit = "none" /\ rpc = "close"
         /\ IF k + 2 <= Len(trace)
            THEN /\ IsDial(trace[k + 2])
                 /\ trace[k + 2].dest = trace[k].dest
                 /\ trace[k + 2].addr = destinations[trace[k].dest].Address
                 /\ trace[k + 2].addr = trace[k].addr
            ELSE k + 1 = Len(trace) => (exit = "none" /\ rpc = "dial")
         /\ (k + 2 = Len(trace) /\ trace[k + 2].ok) =>
              (exit = "none" /\ rpc \in {"write", "recv", "idle"})
         /\ k + 3 <= Len(trace) => IsWrite(trace[k + 3])
  /\ \A k \in 1 .. Len(trace) :
       (IsDial(trace[k]) /\ ~trace[k].ok) => (exit = "fatal" /\ k = Len(trace))
  /\ \A k \in 1 .. Len(trace) :
       (IsDial(trace[k]) /\ k > NDest) =>
         (trace[k - 1].op = "close" /\ IsFailedWrite(trace[k - 2]))

\* A write failed, the socket was closed, the one dial succeeded and the next
\* write was made.
C4_Witness ==
  \E k \in 1 .. Len(trace) :
    /\ IsFailedWrite(trace[k])
    /\ k + 3 <= Len(trace)
    /\ trace[k + 2].ok

\* The successful dials of destination j and the writes to it, in order.
LinkHistory(j) ==
  SelectSeq(trace, LAMBDA e : e.dest = j /\ (IsWrite(e) \/ (IsDial(e) /\ e.ok)))

\* C5: no packet is written twice to a destination; every write to a
\* destination goes to the socket of the latest successful dial of that
\* destination (the socket of the event before it in the destination's own
\* history), never to a socket that was closed; and the connection held for
\* each destination is the socket of its own latest dial, to its own
\* address, so that a failure and reconnect of one destination leaves the
\* connections of the others as they were.
C5_AtMostOnce ==
  /\ Cardinality({<<trace[k].dg, trace[k].rec, trace[k].dest>> : k \in WriteIdx})
       = Cardinality(WriteIdx)
  /\ \A j \in 1 .. NDest :
       LET H == LinkHistory(j)
           D == SelectSeq(H, IsDial)
       IN /\ \A k \in 1 .. Len(H) :
               IsWrite(H[k]) => (k > 1 /\ H[k].sock = H[k - 1].sock)
          /\ \A k \in 2 .. Len(H) :
               IsDial(H[k]) => (IsFailedWrite(H[k - 1]) /\ H[k].sock # H[k - 1].sock)
          /\ j <= Len(destConns) =>
               /\ D # <<>>
               /\ destConns[j] = D[Len(D)].sock
               /\ socks[destConns[j]].addr = destinations[j].Address
  /\ \A k \in 1 .. Len(trace) :
       trace[k].op = "close" =>
         \A m \in WriteIdx : m > k => trace[m].sock # trace[k].sock
  /\ Len(destConns) <= NDest
  /\ \A j1, j2 \in 1 .. Len(destConns) : j1 # j2 => destConns[j1] # destConns[j2]

\* The write to destination 1 failed, the reconnect succeeded and a later
\* packet was written to destination 1, with a second destination present.
C5_Witness ==
  /\ NDest = 2
  /\ \E k \in WriteIdx :
       /\ IsFailedWrite(trace[k]) /\ trace[k].dest = 1
       /\ \E m \in WriteIdx : m > k /\ trace[m].dest = 1 /\ trace[m].ok

\* C6: dataCh never holds more than its capacity; the slices it holds are,
\* in order, the reads that follow the last one received, none dropped and
\* none overwritten; and every datagram read so far was received, is in
\* dataCh or is the one slice the reader is waiting to send, so that a reader
\* blocked on the full channel has made no read beyond that slice.
C6_QueueBounded ==
  /\ Len(dataCh) <= ChanCap
  /\ \A k \in 1 .. Len(dataCh) : dataCh[k].seq = cur.seq + k
  /\ nReads = cur.seq + Len(dataCh) + (IF lpc = "push" THEN 1 ELSE 0)
  /\ lpc = "push" => message.seq = nReads
  /\ nReads <= cur.seq + ChanCap + 1

\* The channel is full and the reader is blocked in its send.
C6_Witness == variant = "queued" /\ Len(dataCh) = ChanCap /\ lpc = "push"

\* The slices that were handed off and are still in use.
Live ==
  [k \in 1 .. Len(dataCh) |-> dataCh[k]]
    \o (IF Routing THEN <<cur>> ELSE <<>>)
    \o (IF lpc = "push" THEN <<message>> ELSE <<>>)

\* C7: the bytes of every slice that waits to be sent, is in dataCh or is
\* being routed are the bytes that were read for it; in the queued variant no
\* two of these slices share a buffer; and what was written so far for the
\* datagram being routed was made from the bytes read for it.
C7_BufferNotReused ==
  /\ \A k \in 1 .. Len(Live) : Bytes(Live[k]) = Live[k].orig
  /\ variant = "queued" =>
       \A k1, k2 \in 1 .. Len(Live) : k1 # k2 => Live[k1].buf # Live[k2].buf
  /\ Routing =>
       \A k \in WriteIdx :
         trace[k].dg = cur.seq =>
           trace[k].payload =
             MakePacket(cur.orig, packets[trace[k].rec], destinations[trace[k].dest])

\* The router is at the second packet of a datagram while a datagram of
\* other bytes, read later, is in dataCh.
C7_Witness ==
  /\ variant = "queued" /\ rpc = "write" /\ rk = 2
  /\ Len(dataCh) >= 1
  /\ dataCh[1].orig # cur.orig

\* C8: with no destination main stays at its check and ends there with a
\* fatal error: the reader and the router are never started, the inbound
\* socket is never bound, no socket is dialed and no datagram read.
C8_NoDestinations ==
  /\ [](NDest = 0 =>
          /\ mainpc = "check"
          /\ lpc = "idle" /\ rpc = "idle"
          /\ ~bound /\ socks = <<>> /\ trace = <<>>
          /\ nReads = 0 /\ dataCh = <<>>)
  /\ [][(NDest = 0 /\ sigs' = sigs) => exit' = "fatal"]_vars

\* main has ended with the fatal error for an empty list of destinations.
C8_Witness == NDest = 0 /\ exit = "fatal" /\ sigs = 0

\* One of the dials of startup failed.
InitialDialFailed ==
  \E k \in 1 .. Min(Len(trace), NDest) : IsDial(trace[k]) /\ ~trace[k].ok

\* C9: once a dial of startup has failed the process has ended with a fatal
\* error, no write was made to any destination and no datagram was received
\* from dataCh or parsed.
C9_InitialDialFatal ==
  InitialDialFailed =>
    /\ exit = "fatal"
    /\ WriteIdx = {}
    /\ cur = NoSlice /\ packets = <<>>
    /\ \A k \in 1 .. Len(dataCh) : dataCh[k].seq = k

\* The dial of the second destination failed after the first succeeded, the
\* reader having put a datagram in dataCh meanwhile.
C9_Witness ==
  /\ variant = "queued"
  /\ Len(trace) = 2 /\ trace[1].ok /\ ~trace[2].ok
  /\ InitialDialFailed
  /\ Len(dataCh) >= 1

\* C10: a step in which a read fails is a step of the reader at its read
\* that counts (logs) one error and changes nothing else: nothing is put in
\* dataCh, nothing is routed, the process goes on and the reader is at its
\* read again, in the state it would be in had the error not happened.
C10_ReadErrorSkipped ==
  [][nReadErrs' # nReadErrs =>
       /\ nReadErrs' = nReadErrs + 1
       /\ lpc = "read" /\ lpc' = "read"
       /\ exit' = "none"
       /\ UNCHANGED <<cfgVars, mainVars, bound, message, nReads, reads, heap, dataCh,
                      rpc, loopVars, sockVars>>]_vars

\* A datagram read after a read error was routed: a write was made for it.
C10_Witness ==
  /\ cur.errs > 0
  /\ \E k \in WriteIdx : trace[k].dg = cur.seq

\* ------------------------------------------------------------- parseMessage
\* parseMessage on its own: a slice message[:n] over every byte sequence of
\* at most MaxLen bytes, as ReadFromUDP leaves it in a fresh buffer.
Alphabet == {"a", COLON, LF}

Buffers == UNION { [1 .. k -> Alphabet] : k \in 0 .. MaxLen }

ParseInit ==
  /\ variant \in {"queued", "single"}
  /\ network = {}
  /\ destinations = <<>>
  /\ exit = "none"
  /\ mainpc = "run"
  /\ signalchan = 0 /\ sigs = 0
  /\ lpc = "idle" /\ bound = FALSE
  /\ message = NoSlice
  /\ nReads = 1 /\ nReadErrs = 0
  /\ \E w \in Buffers :
       /\ heap = << ReadInto(NewBuf, w) >>
       /\ cur = [buf |-> 1, n |-> ReadLen(w), seq |-> 1, errs |-> 0,
                 orig |-> SubSeq(w, 1, ReadLen(w)), wire |-> w]
       /\ reads = <<w>>
  /\ dataCh = <<>>
  /\ rpc = "parse"
  /\ destConns = <<>>
  /\ packets = <<>>
  /\ rk = 0 /\ ri = 0 /\ conn = 0
  /\ socks = <<>> /\ nFails = 0
  /\ trace = <<>>

\* for _, p := range parseMessage(data)
ParseStep ==
  /\ rpc = "parse"
  /\ packets' = parseMessage(heap[cur.buf], cur.n)
  /\ rpc' = "parsed"
  /\ UNCHANGED <<cfgVars, exit, mainVars, lpc, readVars, heap, dataCh,
                 destConns, cur, rk, ri, conn, sockVars>>

SpecParse == ParseInit /\ [][ParseStep]_vars

\* The lines of a datagram d, by the positions of its newline bytes.
Cuts(d) == {0} \cup {i \in 1 .. Len(d) : d[i] = LF} \cup {Len(d) + 1}

NLines(d) == Cardinality(Cuts(d)) - 1

Cut(d, k) == CHOOSE c \in Cuts(d) : Cardinality({x \in Cuts(d) : x < c}) = k

LineOf(d, k) == SubSeq(d, Cut(d, k - 1) + 1, Cut(d, k) - 1)

\* A valid line is key:body with a non-empty key that holds no colon.
Colon1(l) ==
  CHOOSE c \in 1 .. Len(l) : l[c] = COLON /\ \A j \in 1 .. (c - 1) : l[j] # COLON

ValidLine(l) == (\E c \in 1 .. Len(l) : l[c] = COLON) /\ Colon1(l) > 1

KeyOf(l) == SubSeq(l, 1, Colon1(l) - 1)

BodyOf(l) == SubSeq(l, Colon1(l) + 1, Len(l))

\* The record of line l: <<key, body>> when l is valid, else nothing.
RecordOf(l) ==
  IF \E c \in 1 .. Len(l) : l[c] = COLON
  THEN LET c == Colon1(l)
       IN IF c > 1 THEN << <<SubSeq(l, 1, c - 1), SubSeq(l, c + 1, Len(l))>> >>
          ELSE <<>>
  ELSE <<>>

\* The valid lines of d, in order, as <<key, body>> pairs: the record of
\* what is before the first newline, then those of what is after it.
RECURSIVE ValidLines(_)
ValidLines(d) ==
  IF \E i \in 1 .. Len(d) : d[i] = LF
  THEN LET i == CHOOSE i \in 1 .. Len(d) :
                  d[i] = LF /\ \A j \in 1 .. (i - 1) : d[j] # LF
       IN RecordOf(SubSeq(d, 1, i - 1)) \o ValidLines(SubSeq(d, i + 1, Len(d)))
  ELSE RecordOf(d)

\* The records parseMessage returned for the current slice, as bytes.
Records ==
  [k \in 1 .. Len(packets) |->
     << SubSeq(heap[cur.buf], packets[k].keyLo, packets[k].keyHi),
        SubSeq(heap[cur.buf], packets[k].bodyLo, packets[k].bodyHi) >>]

AllValid(d) == \A k \in 1 .. NLines(d) : ValidLine(LineOf(d, k))

\* C11: for a buffer made of n valid key:body lines separated by newlines,
\* parseMessage returns exactly n records, the k-th being the k-th line cut
\* at its first colon: key before it, body (empty or with more colons) after.
C11_ValidLinesParsed ==
  (rpc = "parsed" /\ AllValid(cur.wire)) =>
     /\ Len(packets) = NLines(cur.wire)
     /\ \A k \in 1 .. NLines(cur.wire) :
          /\ k <= Len(packets)
          /\ Records[k][1] = KeyOf(LineOf(cur.wire, k))
          /\ Records[k][2] = BodyOf(LineOf(cur.wire, k))
          /\ Records[k][1] \o <<COLON>> \o Records[k][2] = LineOf(cur.wire, k)

\* Two valid lines parsed, the first with a colon in its body, the second
\* with an empty body.
C11_Witness ==
  /\ rpc = "parsed"
  /\ cur.wire = <<"a", COLON, COLON, LF, "a", COLON>>
  /\ Records = << << <<"a">>, <<COLON>> >>, << <<"a">>, <<>> >> >>

\* C12: an empty line, a line without a colon and a line that starts with a
\* colon yield no record; every other line of the buffer yields its record,
\* unchanged and in the original relative order.
C12_InvalidLinesSkipped ==
  rpc = "parsed" => Records = ValidLines(cur.wire)

\* An empty line, a line with an empty key and a valid line after them:
\* only the last yields a record.
C12_Witness ==
  /\ rpc = "parsed"
  /\ cur.wire = <<LF, COLON, "a", LF, "a", COLON>>
  /\ Len(packets) = 1
  /\ Records[1] = << <<"a">>, <<>> >>

\* ------------------------------------------------------------- fan-out
\* The writes made so far for the datagram the router holds.
IsCurWrite(e) == e.op = "write" /\ e.dg = cur.seq

CurWrites == SelectSeq(trace, IsCurWrite)

\* The router is done with the datagram it holds.
Routed == cur.seq > 0 /\ ~Routing

\* The writes of a datagram routed without a write failure: one per
\* (record, destination) pair, in that order, each with its payload.
WritesPerPair ==
  (Routed /\ \A k \in 1 .. Len(CurWrites) : CurWrites[k].ok) =>
    LET R == ValidLines(cur.orig)
        W == CurWrites
    IN /\ Len(W) = Len(R) * NDest
       /\ \A k \in 1 .. Len(W) :
            LET rec == ((k - 1) \div NDest) + 1
                j == ((k - 1) % NDest) + 1
            IN /\ W[k].rec = rec /\ W[k].dest = j
               /\ rec <= Len(R)
               /\ \E key \in {ReplaceAll(destinations[j].Regex, R[rec][1],
                                          destinations[j].Replace)} :
                    W[k].payload = key \o <<COLON>> \o R[rec][2]
               /\ \A x \in 1 .. Len(W[k].payload) : W[k].payload[x] # LF

\* C13: when a datagram with r records is routed to d destinations without
\* a write failure, exactly r * d writes were made for it, the k-th being
\* the write of record (k - 1) \div d + 1 to destination (k - 1) % d + 1; its
\* payload is the rewritten key, one colon and the body of that one record,
\* with no newline in it; and no step makes more than one socket call, so
\* each write is a datagram of its own.
C13_OneWritePerPair ==
  /\ []WritesPerPair
  /\ [][Len(trace') <= Len(trace) + 1]_vars

\* A datagram of two records was routed to two destinations in four
\* successful writes.
C13_Witness ==
  /\ Routed /\ NDest = 2
  /\ Len(ValidLines(cur.orig)) = 2
  /\ Len(CurWrites) = 4
  /\ \A k \in 1 .. 4 : CurWrites[k].ok

\* The pattern re has a match in key.
Occurs(re, key) ==
  \E i \in 1 .. Len(key) :
    /\ re.anch => i = 1
    /\ i + Len(re.lit) - 1 <= Len(key)
    /\ \A x \in 1 .. Len(re.lit) : key[i + x - 1] = re.lit[x]

\* The keys written for the datagram the router holds are rewritten from
\* the keys as read, which are still in the buffer.
RewrittenFromRead ==
  cur.seq > 0 =>
    LET R == ValidLines(cur.orig)
    IN /\ Len(packets) = Len(R)
       /\ \A r \in 1 .. Len(packets) :
            SubSeq(heap[cur.buf], packets[r].keyLo, packets[r].keyHi) = R[r][1]
       /\ \A k \in 1 .. Len(CurWrites) :
            LET e == CurWrites[k]
                d == destinations[e.dest]
                key == R[e.rec][1]
            IN /\ SubSeq(e.payload, 1, Len(e.payload) - Len(R[e.rec][2]) - 1)
                    = ReplaceAll(d.Regex, key, d.Replace)
               /\ ~Occurs(d.Regex, key) =>
                    SubSeq(e.payload, 1, Len(key)) = key
                      /\ e.payload[Len(key) + 1] = COLON

\* C14: the key written to destination j is Regex_j.ReplaceAll of the key as
\* it was read, whatever was written to the destinations before j; a key
\* without a match of the pattern of j is written unchanged; and no step
\* taken while a datagram is routed changes the buffer its records are in.
C14_RewritePerDestination ==
  /\ []RewrittenFromRead
  /\ [][Routing => heap'[cur.buf] = heap[cur.buf]]_vars

\* Key "a" went to destination 1 as "pa" and, after it, unchanged to
\* destination 2, whose pattern it does not match.
C14_Witness ==
  /\ NDest = 2 /\ Len(CurWrites) >= 2
  /\ CurWrites[1].dest = 1 /\ CurWrites[1].payload = <<"p", "a", COLON, "1">>
  /\ CurWrites[2].dest = 2 /\ CurWrites[2].payload = <<"a", COLON, "1">>

\* ------------------------------------------------------------- links
\* The router is in its loop: the initial dials are done.
InLoop ==
  rpc \in {"recv", "write", "close", "dial"} \/ (variant = "single" /\ lpc = "read")

\* C16: once the initial dials are done destConns has one entry per
\* destination, entry i being a socket dialed to the address of destination
\* i; a link is closed only while its destination is being redialed; and
\* where a write is about to be made every link is open.
C16_LinksMatchDestinations ==
  InLoop =>
    /\ Len(destConns) = NDest
    /\ \A i \in 1 .. NDest :
         /\ destConns[i] \in 1 .. Len(socks)
         /\ socks[destConns[i]].addr = destinations[i].Address
         /\ ~socks[destConns[i]].open => (rpc = "dial" /\ ri = i)
    /\ (rpc = "write" /\ exit = "none") =>
         \A i \in 1 .. NDest : socks[destConns[i]].open

\* After a failed write to destination 1 and its redial, the write to
\* destination 2 is about to be made.
C16_Witness ==
  /\ NDest = 2 /\ rpc = "write" /\ ri = 2 /\ exit = "none"
  /\ nFails > 0 /\ destConns[1] = 3
  /\ socks[3].open /\ ~socks[1].open

\* ------------------------------------------------------------- end to end
\* C15: with the destinations 127.0.0.1:9001 (^stats\. to prod.stats.) and
\* 127.0.0.1:9002 (^stats\. to dev.stats.), a routed datagram
\* stats.counter:5|c led to exactly two writes: prod.stats.counter:5|c on
\* the link of 9001, then dev.stats.counter:5|c on the link of 9002.
C15_EndToEnd ==
  (Routed /\ cur.wire = E2EDatagram) =>
    /\ Len(CurWrites) = 2
    /\ CurWrites[1].payload =
         <<"p", "r", "o", "d", ".", "s", "t", "a", "t", "s", ".", "c", "o", "u",
      "n", "t", "e", "r", COLON, "5", "|", "c">>
    /\ CurWrites[1].addr =
         <<"1", "2", "7", ".", "0", ".", "0", ".", "1", COLON, "9", "0", "0", "1">>
    /\ socks[CurWrites[1].sock].addr = CurWrites[1].addr
    /\ CurWrites[2].payload =
         <<"d", "e", "v", ".", "s", "t", "a", "t", "s", ".", "c", "o", "u", "n",
      "t", "e", "r", COLON, "5", "|", "c">>
    /\ CurWrites[2].addr =
         <<"1", "2", "7", ".", "0", ".", "0", ".", "1", COLON, "9", "0", "0", "2">>
    /\ socks[CurWrites[2].sock].addr = CurWrites[2].addr

\* The datagram was routed in two successful writes.
C15_Witness ==
  /\ Routed /\ cur.wire = E2EDatagram /\ NDest = 2
  /\ Len(CurWrites) = 2 /\ CurWrites[1].ok /\ CurWrites[2].ok

\* ------------------------------------------------------------- order
\* The router takes a datagram: the one read right after the one it holds.
TakesNext ==
  cur' # cur =>
    /\ cur'.seq = cur.seq + 1
    /\ (variant = "queued") => (cur' = Head(dataCh) /\ dataCh' = Tail(dataCh))
    /\ (variant = "single") => (cur' = message')

\* A datagram is put in dataCh: the last one read, behind the one before it.
PutsLast ==
  Len(dataCh') > Len(dataCh) =>
    /\ dataCh' = Append(dataCh, message)
    /\ message.seq = nReads
    /\ message.seq = cur.seq + Len(dataCh) + 1

\* C17: the datagram the router takes next is the one read right after the
\* one it holds (none skipped, none taken twice, none out of order); a
\* datagram is put in dataCh once, when it is the last one read, behind the
\* one read before it; and in the history the writes of a datagram come
\* before every write of a datagram read later.
C17_ReadOrder ==
  /\ [](\A k \in 2 .. Len(trace) : trace[k - 1].dg <= trace[k].dg)
  /\ [][TakesNext /\ PutsLast]_vars

\* The third datagram waits in dataCh while the second is being written,
\* after the writes of the first.
C17_Witness ==
  /\ variant = "queued" /\ cur.seq = 2 /\ rpc = "write"
  /\ Len(dataCh) = 1 /\ dataCh[1].seq = 3
  /\ \E k \in WriteIdx : trace[k].dg = 1
  /\ \E k \in WriteIdx : trace[k].dg = 2

\* ------------------------------------------------------------- truncation
\* The first BufSize bytes of the datagram slice s was read from.
FirstBytes(s) == SubSeq(s.wire, 1, Min(Len(s.wire), BufSize))

\* C18: every slice handed on has at most BufSize bytes, the first BufSize
\* bytes of the datagram received; a successful read changes neither the
\* count of logged read errors nor the exit status; and a routed datagram
\* that was cut has had each valid line of its first BufSize bytes,
\* the cut last line included, written to every destination.
C18_Truncated ==
  /\ [](\A k \in 1 .. Len(Live) :
          /\ Live[k].n <= BufSize
          /\ Live[k].n = Min(Len(Live[k].wire), BufSize)
          /\ Bytes(Live[k]) = FirstBytes(Live[k]))
  /\ []((Routed /\ Len(cur.wire) > BufSize
             /\ \A k \in 1 .. Len(CurWrites) : CurWrites[k].ok) =>
          LET R == ValidLines(FirstBytes(cur))
          IN /\ Len(CurWrites) = Len(R) * NDest
             /\ \A r \in 1 .. Len(R) : \A j \in 1 .. NDest :
                  LET e == CurWrites[(r - 1) * NDest + j]
                  IN /\ e.dest = j
                     /\ SubSeq(e.payload, Len(e.payload) - Len(R[r][2]),
                               Len(e.payload)) = <<COLON>> \o R[r][2])
  /\ [][nReads' # nReads => nReadErrs' = nReadErrs /\ exit' = exit]_vars

\* A datagram longer than the buffer was routed to two destinations: its
\* last line, cut after the second colon, went out as a record.
C18_Witness ==
  /\ Routed /\ NDest = 2 /\ Len(cur.wire) > BufSize
  /\ Len(CurWrites) = 4 /\ \A k \in 1 .. 4 : CurWrites[k].ok
  /\ CurWrites[4].payload
       = <<"q", "a", COLON>> \o SubSeq(cur.wire, 8, BufSize)
  /\ cur.wire[BufSize] # LF /\ cur.wire[BufSize + 1] # LF

\* ------------------------------------------------------------- progress
\* Datagram s is in dataCh.
Enqueued(s) == \E k \in 1 .. Len(dataCh) : dataCh[k].seq = s

\* The router is done with datagram s and a write was attempted for each of
\* its records on each destination.
Delivered(s) ==
  /\ cur.seq = s /\ ~Routing
  /\ \A r \in 1 .. Len(packets) : \A j \in 1 .. NDest : Attempted(s, r, j)

\* The reader waits to send on a full dataCh.
Blocked == lpc = "push" /\ Len(dataCh) = ChanCap

\* C19: under fair scheduling, unless the process ends, every datagram in
\* dataCh is eventually received and written to every destination, and a
\* reader blocked on a full dataCh eventually gets its slice in.
C19_Progress ==
  /\ \A s \in 1 .. MaxReads : Enqueued(s) ~> (Delivered(s) \/ exit # "none")
  /\ Blocked ~> (lpc # "push" \/ exit # "none")

\* The last datagram read, of two records, was routed to both destinations
\* and the reader is back at ReadFromUDP.
C19_Witness ==
  /\ variant = "queued" /\ exit = "none" /\ NDest = 2
  /\ nReads = MaxReads /\ lpc = "read" /\ dataCh = <<>>
  /\ Delivered(MaxReads) /\ Len(packets) = 2

\* ------------------------------------------------------------- equivalence
\* The records of the g-th datagram read, cut to the buffer size.
RecordsOf(g) == ValidLines(SubSeq(reads[g], 1, Min(Len(reads[g]), BufSize)))

\* The first datagram read after the g-th that has a record, or 0.
NextWithRecords(g) ==
  IF \E h \in (g + 1) .. Len(reads) : RecordsOf(h) # <<>>
  THEN CHOOSE h \in (g + 1) .. Len(reads) :
         RecordsOf(h) # <<>> /\ \A x \in (g + 1) .. (h - 1) : RecordsOf(x) = <<>>
  ELSE 0

\* The greatest element of a non-empty set of numbers, 0 for the empty set.
Last(S) == IF S = {} THEN 0 ELSE CHOOSE i \in S : \A x \in S : x <= i

\* Among the entries of the history before entry k: the last write, the
\* last successful dial of destination j, the number of successful dials.
LastWrite(k) == Last({i \in 1 .. (k - 1) : IsWrite(trace[i])})

LastDialOf(j, k) ==
  Last({i \in 1 .. (k - 1) :
          IsDial(trace[i]) /\ trace[i].ok /\ trace[i].dest = j})

DialsOk(k) == Cardinality({i \in 1 .. (k - 1) : IsDial(trace[i]) /\ trace[i].ok})

\* The (datagram, record, destination) of the write that comes after the
\* entries before k: the next destination of the record written last, else
\* destination 1 of the next record, of the same datagram or of the next
\* datagram read that has one; dg is 0 when there is none.
WriteDue(k) ==
  LET p == LastWrite(k)
  IN IF p = 0 THEN [dg |-> NextWithRecords(0), rec |-> 1, dest |-> 1]
     ELSE IF trace[p].dest < NDest
          THEN [dg |-> trace[p].dg, rec |-> trace[p].rec,
                dest |-> trace[p].dest + 1]
          ELSE IF trace[p].rec < Len(RecordsOf(trace[p].dg))
               THEN [dg |-> trace[p].dg, rec |-> trace[p].rec + 1, dest |-> 1]
               ELSE [dg |-> NextWithRecords(trace[p].dg), rec |-> 1, dest |-> 1]

\* The call at entry k of the history is the one that the entries before
\* it, the datagrams read and its own outcome determine: the initial dials
\* in order; then a write per (record, destination) pair on the
\* destination's latest link; after a failed write the close of its link,
\* then one dial of that destination; nothing after a failed dial.
Determined(k) ==
  LET e == trace[k]
  IN IF k <= NDest
     THEN /\ e = [op |-> "dial", dest |-> k, sock |-> IF e.ok THEN k ELSE 0,
                  addr |-> destinations[k].Address, ok |-> e.ok,
                  payload |-> <<>>, dg |-> 0, rec |-> 0]
          /\ k > 1 => trace[k - 1].ok
     ELSE LET q == trace[k - 1]
          IN CASE e.op = "write" ->
                    /\ q.ok /\ q.op \in {"dial", "write"}
                    /\ LET t == WriteDue(k)
                           d == destinations[t.dest]
                       IN /\ t.dg > 0
                          /\ LET x == RecordsOf(t.dg)[t.rec]
                             IN e = [op |-> "write", dest |-> t.dest,
                                     sock |-> trace[LastDialOf(t.dest, k)].sock,
                                     addr |-> d.Address, ok |-> e.ok,
                                     payload |->
                                       ReplaceAll(d.Regex, x[1], d.Replace)
                                         \o <<COLON>> \o x[2],
                                     dg |-> t.dg, rec |-> t.rec]
               [] e.op = "close" ->
                    /\ q.op = "write" /\ ~q.ok
                    /\ e = [op |-> "close", dest |-> q.dest, sock |-> q.sock,
                            addr |-> q.addr, ok |-> TRUE, payload |-> <<>>,
                            dg |-> q.dg, rec |-> 0]
               [] e.op = "dial" ->
                    /\ q.op = "close"
                    /\ e = [op |-> "dial", dest |-> q.dest,
                            sock |-> IF e.ok THEN DialsOk(k) + 1 ELSE 0,
                            addr |-> destinations[q.dest].Address,
                            ok |-> e.ok, payload |-> <<>>,
                            dg |-> q.dg, rec |-> 0]

\* Every datagram read was routed and the process lives.
AllRouted == InLoop /\ exit = "none" /\ cur.seq = Len(reads) /\ ~Routing

\* The last call of the history is the determined one; when every datagram
\* read was routed no write is due; and a failed dial ended the process.
Replayed ==
  /\ trace # <<>> =>
       /\ Determined(Len(trace))
       /\ (IsDial(trace[Len(trace)]) /\ ~trace[Len(trace)].ok) => exit = "fatal"
  /\ AllRouted => WriteDue(Len(trace) + 1).dg = 0
  /\ (exit = "fatal" /\ NDest > 0 /\ bound) =>
       (trace # <<>> /\ IsDial(trace[Len(trace)]) /\ ~trace[Len(trace)].ok)

\* The histories only grow, a call at a time.
Grows(h, g) == h = g \/ (Len(h) = Len(g) + 1 /\ SubSeq(h, 1, Len(g)) = g)

\* C20: in either variant the history of socket calls (dials, writes with
\* destination, link and payload, closes) is the one history determined by
\* the destinations, the datagrams read and the outcomes of the writes and
\* dials: each call, when it is made, is the one determined by the calls
\* before it; when every datagram read was routed no call is missing; and
\* the process is ended by a socket call exactly when a dial fails.  So two
\* runs, one of each variant, with the same datagrams and outcomes have the
\* same history and the same end.
C20_SameOutputs ==
  /\ []Replayed
  /\ [][/\ Grows(trace', trace)
         /\ Grows(reads', reads)
         /\ (trace' # trace /\ exit' # exit) =>
              (exit' = "fatal" /\ IsDial(trace'[Len(trace')])
                 /\ ~trace'[Len(trace')].ok)]_vars

\* The single-threaded variant routed a long datagram and then one without
\* a record, read into the same buffer, with a failed write on the way.
C20_Witness ==
  /\ variant = "single" /\ AllRouted /\ NDest = 2
  /\ Len(reads) = 2 /\ Len(reads[1]) > BufSize /\ Len(reads[2]) = 2
  /\ nFails = 1 /\ Len(SelectSeq(trace, IsWrite)) = 4

====
